---- MODULE Spec2Model ----
(***************************************************************************)
(* The Jupyter Lab process supervisor of the platform backend:             *)
(*   backend/app/services/jupyter_service.py  (JupyterService)             *)
(*   backend/app/routers/jupyter.py           (start / stop / status)      *)
(*   backend/app/routers/workspace.py         (create / delete)            *)
(*   backend/app/utils/workspace.py           (find_available_port)        *)
(* and the node ordering of backend/app/llmops/graph_builder.py.           *)
(*                                                                         *)
(* The route handlers are `async def` functions that call the blocking     *)
(* service methods without awaiting anything, so one handler runs from its *)
(* first line to its response before the next one starts: every handler is *)
(* one action.  What the operating system and the Workspace Store do on    *)
(* their own (a subprocess dying, a store call failing, a signal that      *)
(* cannot be sent) is drawn with \E.                                       *)
(*                                                                         *)
(* start_jupyter_lab calls find_available_port(db_session) (line 53), and  *)
(* find_available_port takes no parameter (utils/workspace.py, line 85):   *)
(* the call raises TypeError, which lines 55-57 turn into the no-port      *)
(* error.  Every start that does not return through the fast path of       *)
(* lines 29-32 therefore ends at line 57, and lines 59-231 (directories,   *)
(* Popen, the store of the handle, the settle check, the connect probes)   *)
(* are never executed.  The table of a service object gets no entry from   *)
(* its own methods: in every state of the program (Spec) it is empty.      *)
(*                                                                         *)
(* What the methods do to an entry is modelled all the same, and run on    *)
(* every table the type Dict[int, Popen] admits (InitTable, SpecTable,     *)
(* SpecThreads).  Those tables are no states of the program.  A statement  *)
(* that holds on all of them holds of the methods whatever the table; a    *)
(* statement that fails on one of them is not thereby refuted for the      *)
(* program.                                                                *)
(***************************************************************************)
EXTENDS Integers, Sequences, FiniteSets, TLC

\* ------------------------------------------------------------------ bounds
NumWorkspaces == 2        \* workspace ids 1..NumWorkspaces
RangeSize == 2            \* number of ports of the configured range
MaxThreads == 2           \* concurrent callers of the service object
MaxNodes == 3             \* node ids of a flow: 1..MaxNodes
MaxEdges == 3             \* edges of a flow
MaxBuilds == 2            \* calls of build() on one GraphBuilder

\* --------------------------------------------------------------- constants
jupyter_port_start == 8888
jupyter_port_end == jupyter_port_start + RangeSize

Null == 0                 \* None: no port, no token value
NoProc == 0               \* no Popen handle

Workspaces == 1..NumWorkspaces
Ports == jupyter_port_start..(jupyter_port_end - 1)
Pids == 1..NumWorkspaces  \* handles: the table holds at most one per workspace
Threads == 1..MaxThreads
NodeIds == 1..MaxNodes

VARIABLES
    processes,  \* JupyterService.processes: workspace id -> handle (NoProc: no key)
    procs,      \* the subprocesses behind the handles: [ws, port, st]
    store,      \* Workspace Store rows: [port, status, token], or NoRow
    osName,     \* os.name of the host: "posix" or "nt"
    resp,       \* outcome of the handler that has just returned (NoResp after
                \* anything else has happened)
    threads,    \* calls of the service made by concurrent threads: where each
                \* call stands and what it holds in its local variables
    builder     \* the fields of a GraphBuilder object (NoBuilder: none made)

vars == <<processes, procs, store, osName, resp, threads, builder>>

\* ------------------------------------------------------------- subprocesses
\* A subprocess is "running" or "exited".
Alive(ps, pid) == ps[pid].st # "exited"

PollIsNone_Always(ps, pid) == TRUE

\* Popen.poll() is None
PollIsNone(ps, pid) == Alive(ps, pid)

\* ------------------------------------------------------- is_process_running
is_process_running(tbl, ps, w) ==
    IF tbl[w] = NoProc THEN FALSE ELSE PollIsNone(ps, tbl[w])

\* ------------------------------------------------------ find_available_port
\* for port in range(start, end): bind probe; first success wins.
\* `busy` is the set of ports whose bind raises OSError.  0 stands for the
\* exception raised after the loop.
RECURSIVE ScanFrom(_, _)
ScanFrom(port, busy) ==
    IF port >= jupyter_port_end THEN Null
    ELSE IF port \notin busy THEN port
    ELSE ScanFrom(port + 1, busy)

find_available_port_Inclusive(busy) ==
    IF ScanFrom(jupyter_port_start, busy) # Null
    THEN ScanFrom(jupyter_port_start, busy)
    ELSE IF jupyter_port_end \notin busy THEN jupyter_port_end ELSE Null

find_available_port(busy) == ScanFrom(jupyter_port_start, busy)

\* ------------------------------------------------------------ table helpers
Del_Others(tbl, w) == [v \in Workspaces |-> NoProc]

Del(tbl, w) == [tbl EXCEPT ![w] = NoProc]            \* del self.processes[w]
\* Of an exited subprocess only the exit is ever consulted again.
Exited == [ws |-> 0, port |-> Null, st |-> "exited"]
Exit(ps, pid) == [ps EXCEPT ![pid] = Exited]

NoToken == ""                                        \* token None

\* ---------------------------------------------------------- Workspace Store
\* WorkspaceService is not part of the sources at hand; the routers show its
\* contract.  get_workspace_by_id(workspace_id, user_id) returns the row, or
\* a falsy value when there is none (the router answers 404), and like any
\* database call it can raise.
NoRow == [port |-> Null, status |-> "missing", token |-> NoToken]
StoppedRow == [port |-> Null, status |-> "stopped", token |-> NoToken]
RunningRow(p) == [port |-> p, status |-> "running", token |-> "noauth"]
Rows == {NoRow, StoppedRow} \cup {RunningRow(p) : p \in Ports}

get_workspace_by_id(st, w) == st[w]

\* update_jupyter_info(workspace_id, port, token) returns the updated row, or
\* a falsy value the router answers with 500, and can raise.
\* outcome: "ok", "falsy", "raise".
UpdateOutcomes == {"ok", "falsy", "raise"}

update_jupyter_info(st, w, port, token, outcome) ==
    IF outcome = "ok"
    THEN [st EXCEPT ![w] = [port |-> port, token |-> token,
                            status |-> IF port # Null THEN "running" ELSE "stopped"]]
    ELSE st

\* create_workspace(workspace_data, user) adds a row for a new workspace and
\* returns it: no port, no token, status "stopped" (the column default)
create_workspace(st, w) == [st EXCEPT ![w] = StoppedRow]

\* delete_workspace(workspace_id, user_id) removes the row and returns a
\* truthy value, or returns a falsy one when there is no row
delete_workspace(st, w) == [st EXCEPT ![w] = NoRow]

\* ---------------------------------------------------------- stop_jupyter_lab
\* What the subprocess and the OS do during one stop call:
\*   g  : the graceful signal is delivered ("ok") or sending it raises
\*   ge : the subprocess exits within the wait that follows the graceful signal
\*   f  : the forceful signal is delivered ("ok") or sending it raises
\*   fe : (nt) the subprocess exits within the wait that follows terminate()
\*   k  : (nt) kill() is delivered ("ok") or raises
\* A field the call never consults is kept at its default, so that each
\* course of a stop call is drawn once.
StopInputs ==
    {si \in [g : {"ok", "raise"}, ge : BOOLEAN, f : {"ok", "raise"}, fe : BOOLEAN,
              k : {"ok", "raise"}] :
        /\ si.g = "raise" => ~si.ge
        /\ si.ge => (si.f = "ok" /\ si.fe)
        /\ si.f = "raise" => si.fe
        /\ si.fe => si.k = "ok"}
NoSin == [g |-> "ok", ge |-> TRUE, f |-> "ok", fe |-> TRUE, k |-> "ok"]

\* exc:    the call ended in its `except Exception` handler (lines 268-270)
\* raised: an exception left the call
\* failed: the signals whose sending raised, in the order they were tried
StopResult(tbl, ps, ret, signals, waits) ==
    [tbl |-> tbl, ps |-> ps, ret |-> ret, signals |-> signals, waits |-> waits,
     exc |-> FALSE, raised |-> FALSE, failed |-> <<>>]

\* lines 268-270: except Exception: print; return False
StopFailed(tbl, ps, signals, waits) ==
    [tbl |-> tbl, ps |-> ps, ret |-> FALSE, signals |-> signals, waits |-> waits,
     exc |-> TRUE, raised |-> FALSE, failed |-> <<>>]

\* sending `sig` raised; r is how the call went on from there
SendFailed(sig, r) == [r EXCEPT !.failed = <<sig>> \o @]

\* line 264: del self.processes[workspace_id]
StopDel(tbl, w) == Del(tbl, w)

\* os.name == 'nt' branch, from process.terminate() (line 249) on.  An
\* exception of terminate() or of kill() (line 253) is raised inside the
\* handler of line 247 and reaches lines 268-270.
StopEscalateNt(tbl, ps, w, sin, signals, waits) ==
    LET p == tbl[w] IN
    IF sin.f = "raise"
    THEN SendFailed("terminate", StopFailed(tbl, ps, signals, waits))
    ELSE IF sin.fe
    THEN StopResult(StopDel(tbl, w), Exit(ps, p), TRUE,
                    signals \o <<"terminate">>, waits \o <<"bounded">>)
    ELSE IF sin.k = "raise"
    THEN SendFailed("kill", StopFailed(tbl, ps, signals \o <<"terminate">>,
                                       waits \o <<"bounded">>))
    ELSE StopResult(StopDel(tbl, w), Exit(ps, p), TRUE,
                    signals \o <<"terminate", "kill">>,
                    waits \o <<"bounded", "unbounded">>)

stop_jupyter_lab(tbl, ps, w, os, sin) ==
    IF tbl[w] = NoProc
    THEN StopResult(tbl, ps, FALSE, <<>>, <<>>)
    ELSE
      LET p == tbl[w]
          dead == ~PollIsNone(ps, p)      \* send_signal on an exited Popen is a no-op
      IN
      IF os = "posix"
      THEN IF ~dead /\ sin.g = "raise"
           THEN SendFailed("SIGTERM", StopFailed(tbl, ps, <<>>, <<>>))
           ELSE IF dead \/ sin.ge
           THEN StopResult(StopDel(tbl, w), Exit(ps, p), TRUE,
                           <<"SIGTERM">>, <<"bounded">>)
           ELSE IF sin.f = "raise"
           THEN SendFailed("SIGKILL", StopFailed(tbl, ps, <<"SIGTERM">>, <<"bounded">>))
           ELSE StopResult(StopDel(tbl, w), Exit(ps, p), TRUE,
                           <<"SIGTERM", "SIGKILL">>, <<"bounded", "unbounded">>)
      ELSE IF ~dead /\ sin.g = "raise"
           THEN SendFailed("CTRL_BREAK",                        \* except OSError
                           StopEscalateNt(tbl, ps, w, sin, <<>>, <<>>))
           ELSE IF dead \/ sin.ge
           THEN StopResult(StopDel(tbl, w), Exit(ps, p), TRUE,
                           <<"CTRL_BREAK">>, <<"bounded">>)
           ELSE StopEscalateNt(tbl, ps, w, sin, <<"CTRL_BREAK">>, <<"bounded">>)


\* --------------------------------------------------------- start_jupyter_lab
\* What the environment would do during one start request:
\*   ext    : ports of the range held by other programs (their bind probe fails)
\*   spawn  : subprocess.Popen would return a handle
\*   settle : the subprocess would be "alive" or "exited" when the 8 s sleep ends
\*   stderr, stdout : indicator substrings in the output of an exited subprocess
\*   poll   : "open": a connect probe would succeed within the attempts;
\*            "closed": none would and the subprocess would still be alive;
\*            "closed_exited": none would and the subprocess would have exited
\*            after the settle check
\*   opensAt: the first attempt at which the port would accept a connection
\*   upd    : outcome of the router's update_jupyter_info call
\*   sin    : StopInputs of the router's cleanup stop
\* Of these the code consults upd and sin alone: it comes to no bind probe,
\* no Popen, no settle check and no connect probe.  The others are kept as
\* the circumstances under which a request was made.
PollOutcomes == {"open", "closed", "closed_exited"}

StartInput(e, sp, se, er, ou, po, up, si) ==
    [ext |-> e, spawn |-> sp, settle |-> se, stderr |-> er, stdout |-> ou,
     poll |-> po, upd |-> up, sin |-> si,
     opensAt |-> IF po = "open" THEN 1 ELSE 0]

\* The captured output is reduced to the substrings lines 172-179 look for.
ErrTokens == {"ModuleNotFoundError", "jupyter", "Permission denied", "Port", "already in use"}
OutTokens == {"jupyter"}

\* no indicator at all, a traceback naming a missing module, and a launcher
\* that names itself and a port conflict
FewOutputs == {<<{}, {}>>, <<{"ModuleNotFoundError", "jupyter"}, {}>>,
               <<{"jupyter", "Port", "already in use"}, {"jupyter"}>>}

\* the router's part of the input: the store call, and the cleanup stop
RouterInputs ==
         {<<up, NoSin>> : up \in {"ok", "falsy"}}
    \cup {<<"raise", si>> : si \in StopInputs}

\* the circumstances of a request that leaves the fast path
AllStartInputs(outs) ==
    LET E == SUBSET Ports IN
         {StartInput(e, FALSE, "alive", {}, {}, "open", "ok", NoSin) : e \in E}
    \cup {StartInput(e, TRUE, "exited", o[1], o[2], "open", "ok", NoSin) :
              e \in E, o \in outs}
    \cup {StartInput(e, TRUE, "alive", {}, {}, po, "ok", NoSin) :
              e \in E, po \in PollOutcomes}

\* every port of the range would fail the bind probe
AllBusy(in) == Ports \subseteq in.ext

LabResult(tbl, ps, kind, port, token, pid, reasons) ==
    [tbl |-> tbl, ps |-> ps, kind |-> kind, port |-> port, token |-> token,
     pid |-> pid, reasons |-> reasons]

\* a variant that takes the fast path on the word of the row, without the
\* test of the table of line 29
start_jupyter_lab_TrustsRow(tbl, ps, row, w, in) ==
    IF row.port # Null /\ row.status = "running"
    THEN LabResult(tbl, ps, "fast", row.port,
                   IF row.token # NoToken THEN row.token ELSE "noauth", NoProc, <<>>)
    ELSE LabResult(tbl, ps, "noport", Null, NoToken, NoProc, <<>>)

\* lines 20-57, the part of the method that is executed.
\* kind: "fast"    lines 29-32: returned the stored port, nothing spawned
\*       "noport"  lines 53-57: find_available_port(db_session) raised
\*                 TypeError (one positional argument given, none taken),
\*                 re-raised as the no-port error
\* pid is the handle of a subprocess the call spawned, reasons the failure
\* reasons of lines 171-181 in its message: the call comes to neither.
start_jupyter_lab(tbl, ps, row, w, in) ==
    LET running == is_process_running(tbl, ps, w)
        matched == row.port # Null /\ row.status = "running"
        \* lines 33-36: live handle, row not "running": the key is deleted
        tbl1 == IF running /\ ~matched THEN Del(tbl, w) ELSE tbl
    IN
    IF running /\ matched
    THEN LabResult(tbl, ps, "fast", row.port,
                   IF row.token # NoToken THEN row.token ELSE "noauth", NoProc, <<>>)
    ELSE LabResult(tbl1, ps, "noport", Null, NoToken, NoProc, <<>>)

\* The inputs of a start request for workspace w.  On the fast path the
\* ports held by other programs vary and the rest of the circumstances of a
\* launch is kept at its defaults; off it the call raises, the store call
\* is not made, and the cleanup stop finds no entry or the entry of an
\* exited subprocess, to which signals are of no account.
StartInputs(tbl, ps, row, w, outs) ==
    IF is_process_running(tbl, ps, w) /\ row.port # Null /\ row.status = "running"
    THEN {StartInput(e, TRUE, "alive", {}, {}, "open", ri[1], ri[2]) :
              e \in SUBSET Ports, ri \in RouterInputs}
    ELSE AllStartInputs(outs)

\* ------------------------------------------------------------------- state
DefaultInput == StartInput({}, TRUE, "alive", {}, {}, "open", "ok", NoSin)

NoResp ==
    [op |-> "none", ws |-> 0, http |-> 0, kind |-> "", port |-> Null, pid |-> NoProc,
     reasons |-> <<>>, env |-> DefaultInput, allBusy |-> FALSE,
     ret |-> FALSE, exc |-> FALSE, signals |-> <<>>, waits |-> <<>>, running |-> FALSE,
     raised |-> FALSE, failed |-> <<>>, reaped |-> {}, labHandle |-> NoProc,
     found |-> "", exitedInTime |-> FALSE, afterTrue |-> "",
     busy |-> {}, alloc |-> Null,
     built_nodes |-> {}, edges |-> <<>>, idOrder |-> <<>>, result |-> <<>>,
     cycleError |-> FALSE, builds |-> 0]

\* a thread that has not called the service
IdleThread ==
    [pc |-> "idle", op |-> "", ws |-> 0, row |-> StoppedRow, port |-> Null,
     pid |-> NoProc, sawKey |-> FALSE, free |-> FALSE, kind |-> "", during |-> {},
     signals |-> <<>>, size |-> 0, seen |-> {}, rem |-> <<>>]

\* no GraphBuilder has been made
NoBuilder ==
    [made |-> FALSE, nodes |-> {}, idOrder |-> <<>>, flow_edges |-> <<>>,
     built_nodes |-> {}, in_order |-> <<>>, in_degree |-> <<>>,
     adjacency_list |-> [n \in NodeIds |-> <<>>], edges |-> <<>>, builds |-> 0]

\* The table is empty when the service object is built (line 14).  The
\* Workspace Store is a database that outlives the server process: a
\* workspace has no row, or a row that was never started or was stopped, or
\* a row that still carries the port of an earlier run.
Init ==
    /\ processes = [w \in Workspaces |-> NoProc]
    /\ procs = <<>>
    /\ store \in [Workspaces -> Rows]
    /\ osName \in {"posix", "nt"}
    /\ resp = NoResp
    /\ threads = [t \in Threads |-> IdleThread]
    /\ builder = NoBuilder

\* Any table of the type of self.processes: for each workspace no key, or
\* the handle of a subprocess launched for it on a port of the range that is
\* running, or the handle of one that has exited, with any rows in the
\* store.  The handles are numbered in the order of the workspaces.  No call
\* of the code produces a table with a key (line 148 is not reached): these
\* are the tables the methods are written for, not states of the program.
HandleOf(H, w) == Cardinality({v \in H : v <= w})

RunningProc(w) == {[ws |-> w, port |-> p, st |-> "running"] : p \in Ports}

InitTable ==
    /\ \E H \in SUBSET Workspaces :
         /\ processes = [w \in Workspaces |-> IF w \in H THEN HandleOf(H, w) ELSE NoProc]
         /\ procs \in {ps \in [1..Cardinality(H) -> {Exited} \cup UNION {RunningProc(w) : w \in H}] :
                          \A w \in H : ps[HandleOf(H, w)] \in {Exited} \cup RunningProc(w)}
    /\ store \in [Workspaces -> Rows]
    /\ osName \in {"posix", "nt"}
    /\ resp = NoResp
    /\ threads = [t \in Threads |-> IdleThread]
    /\ builder = NoBuilder

\* -------------------------------------------------------- the route handlers
\* Every handler first reads the row (lines 25-33, 91-98, 128-135):
\*   kind "lookup"    get_workspace_by_id raised: 500
\*   kind "notfound"  no row: 404, nothing else is done
\* and otherwise goes on to the service.

\* what a stop call finds in the table: no entry, the entry of a running
\* subprocess, or the entry of one that has exited
EntryFound(tbl, ps, w) ==
    IF tbl[w] = NoProc THEN "none"
    ELSE IF PollIsNone(ps, tbl[w]) THEN "alive" ELSE "dead"

\* the subprocess is gone when the wait that follows the graceful signal ends:
\* it had exited before, or the delivered signal made it exit in time
ExitedInTime(tbl, ps, w, sin) ==
    CASE EntryFound(tbl, ps, w) = "none" -> FALSE
      [] EntryFound(tbl, ps, w) = "dead" -> TRUE
      [] OTHER -> sin.g = "ok" /\ sin.ge

\* the StopInputs a stop of workspace w consults: signals and waits matter
\* to a running subprocess only
StopInputsFor(tbl, ps, w) ==
    IF EntryFound(tbl, ps, w) = "alive" THEN StopInputs ELSE {NoSin}

\* ---------------------------------------------------- POST /jupyter/start/{id}
\* line 26 raises: lines 70-76 stop the workspace's subprocess and answer 500
StartLookupRaises(w) ==
    \E sin \in StopInputsFor(processes, procs, w) :
      \E s \in {stop_jupyter_lab(processes, procs, w, osName, sin)} :
        /\ processes' = s.tbl
        /\ procs' = s.ps
        /\ resp' = [NoResp EXCEPT !.op = "start", !.ws = w, !.http = 500,
                                  !.kind = "lookup",
                                  !.found = EntryFound(processes, procs, w),
                                  !.labHandle = processes[w]]
        /\ UNCHANGED <<store, osName, builder, threads>>

\* lines 28-33
StartNotFound(w) ==
    /\ get_workspace_by_id(store, w) = NoRow
    /\ resp' = [NoResp EXCEPT !.op = "start", !.ws = w, !.http = 404,
                              !.kind = "notfound", !.labHandle = processes[w]]
    /\ UNCHANGED <<processes, procs, store, osName, builder, threads>>

\* lines 37-81 of the router around start_jupyter_lab
StartHandler(w, in) ==
    \E r \in {start_jupyter_lab(processes, procs, get_workspace_by_id(store, w), w, in)} :
      LET returned == r.kind = "fast"
          \* lines 70-76: any exception other than HTTPException -> stop_jupyter_lab
          cleanup == (~returned) \/ in.upd = "raise"
          ok == returned /\ in.upd = "ok"
      IN
      \E s \in {IF cleanup THEN stop_jupyter_lab(r.tbl, r.ps, w, osName, in.sin)
                ELSE StopResult(r.tbl, r.ps, FALSE, <<>>, <<>>)} :
        /\ get_workspace_by_id(store, w) # NoRow
        /\ processes' = s.tbl
        /\ procs' = s.ps
        /\ store' = IF returned
                    THEN update_jupyter_info(store, w, r.port, r.token, in.upd)
                    ELSE store
        /\ resp' = [NoResp EXCEPT !.op = "start", !.ws = w,
                                  !.http = IF ok THEN 200 ELSE 500,
                                  !.kind = r.kind,
                                  !.port = r.port,
                                  !.pid = r.pid,
                                  !.reasons = r.reasons,
                                  !.env = in,
                                  \* the entry as start_jupyter_lab left it
                                  !.labHandle = r.tbl[w],
                                  !.allBusy = AllBusy(in)]
        /\ UNCHANGED <<osName, builder, threads>>

StartJupyter(w) ==
    \/ StartLookupRaises(w)
    \/ StartNotFound(w)
    \/ \E in \in StartInputs(processes, procs, get_workspace_by_id(store, w), w, FewOutputs) :
          StartHandler(w, in)

\* ----------------------------------------------------- POST /jupyter/stop/{id}
\* line 92 raises: lines 114-118 answer 500
StopLookupRaises(w) ==
    /\ resp' = [NoResp EXCEPT !.op = "stop", !.ws = w, !.http = 500, !.kind = "lookup"]
    /\ UNCHANGED <<processes, procs, store, osName, builder, threads>>

\* lines 94-98
StopNotFound(w) ==
    /\ get_workspace_by_id(store, w) = NoRow
    /\ resp' = [NoResp EXCEPT !.op = "stop", !.ws = w, !.http = 404, !.kind = "notfound"]
    /\ UNCHANGED <<processes, procs, store, osName, builder, threads>>

\* lines 100-118
StopHandler(w) ==
    \E sin \in StopInputsFor(processes, procs, w) :
      \E s \in {stop_jupyter_lab(processes, procs, w, osName, sin)} :
        \E upd \in IF s.ret THEN UpdateOutcomes ELSE {"ok"} :
          /\ get_workspace_by_id(store, w) # NoRow
          /\ processes' = s.tbl
          /\ procs' = s.ps
          /\ store' = IF s.ret
                      THEN update_jupyter_info(store, w, Null, NoToken, upd)
                      ELSE store
          /\ resp' = [NoResp EXCEPT !.op = "stop", !.ws = w,
                                    !.http = IF s.ret /\ upd # "raise" THEN 200 ELSE 500,
                                    !.kind = "stop",
                                    !.ret = s.ret,
                                    !.exc = s.exc,
                                    !.raised = s.raised,
                                    !.found = EntryFound(processes, procs, w),
                                    \* what the stop request directly before this
                                    \* one found, when it was for the same
                                    \* workspace and returned True
                                    !.afterTrue = IF /\ resp.op = "stop" /\ resp.kind = "stop"
                                                     /\ resp.ws = w /\ resp.ret
                                                  THEN resp.found ELSE "",
                                    !.exitedInTime = ExitedInTime(processes, procs, w, sin),
                                    !.failed = s.failed,
                                    !.signals = s.signals,
                                    !.waits = s.waits]
          /\ UNCHANGED <<osName, builder, threads>>

StopJupyter(w) ==
    \/ StopLookupRaises(w)
    \/ StopNotFound(w)
    \/ StopHandler(w)

\* ---------------------------------------------------- GET /jupyter/status/{id}
\* line 129 raises: lines 149-153 answer 500
StatusLookupRaises(w) ==
    /\ resp' = [NoResp EXCEPT !.op = "status", !.ws = w, !.http = 500, !.kind = "lookup"]
    /\ UNCHANGED <<processes, procs, store, osName, builder, threads>>

\* lines 131-135
StatusNotFound(w) ==
    /\ get_workspace_by_id(store, w) = NoRow
    /\ resp' = [NoResp EXCEPT !.op = "status", !.ws = w, !.http = 404, !.kind = "notfound"]
    /\ UNCHANGED <<processes, procs, store, osName, builder, threads>>

\* lines 137-145
StatusHandler(w) ==
    LET is_running == is_process_running(processes, procs, w) IN
    /\ get_workspace_by_id(store, w) # NoRow
    /\ resp' = [NoResp EXCEPT !.op = "status", !.ws = w, !.http = 200,
                              !.kind = "status",
                              !.running = is_running,
                              !.port = IF is_running
                                       THEN get_workspace_by_id(store, w).port
                                       ELSE Null]
    /\ UNCHANGED <<processes, procs, store, osName, builder, threads>>

GetJupyterStatus(w) ==
    \/ StatusLookupRaises(w)
    \/ StatusNotFound(w)
    \/ StatusHandler(w)

\* ------------------------------------------------------- POST /workspaces/
\* routers/workspace.py, lines 12-21: a workspace is created under an id no
\* row has; the supervisor is not called.  The handler has no try: when the
\* store call of line 20 raises, the exception leaves the handler (kind
\* "raise", answered with 500 by the framework) and no row is added.
CreateWorkspaceRaises(w) ==
    /\ store[w] = NoRow
    /\ resp' = [NoResp EXCEPT !.op = "create", !.ws = w, !.http = 500,
                              !.kind = "raise", !.raised = TRUE]
    /\ UNCHANGED <<processes, procs, store, osName, builder, threads>>

CreateWorkspaceReturns(w) ==
    /\ store[w] = NoRow
    /\ store' = create_workspace(store, w)
    /\ resp' = [NoResp EXCEPT !.op = "create", !.ws = w, !.http = 200]
    /\ UNCHANGED <<processes, procs, osName, builder, threads>>

CreateWorkspace(w) ==
    \/ CreateWorkspaceRaises(w)
    \/ CreateWorkspaceReturns(w)

\* ------------------------------------------------- DELETE /workspaces/{id}
\* routers/workspace.py, lines 51-67: the row is deleted; the handler calls
\* neither stop_jupyter_lab nor anything else of the supervisor, so the
\* table entry and the subprocess of the workspace stay as they are.  The
\* handler has no try: when the store call of line 59 raises, the exception
\* leaves the handler and the row stays.
DeleteWorkspaceRaises(w) ==
    /\ resp' = [NoResp EXCEPT !.op = "delete", !.ws = w, !.http = 500,
                              !.kind = "raise", !.raised = TRUE]
    /\ UNCHANGED <<processes, procs, store, osName, builder, threads>>

DeleteWorkspaceReturns(w) ==
    /\ store' = delete_workspace(store, w)
    /\ resp' = [NoResp EXCEPT !.op = "delete", !.ws = w,
                              !.http = IF store[w] # NoRow THEN 200 ELSE 404]
    /\ UNCHANGED <<processes, procs, osName, builder, threads>>

DeleteWorkspace(w) ==
    \/ DeleteWorkspaceRaises(w)
    \/ DeleteWorkspaceReturns(w)

\* --------------------------------------------------- cleanup_zombie_processes
to_remove_All(tbl, ps) == {w \in Workspaces : tbl[w] # NoProc}

\* lines 290-293: the keys whose is_process_running is False
to_remove(tbl, ps) ==
    {w \in Workspaces : tbl[w] # NoProc /\ ~is_process_running(tbl, ps, w)}

cleanup_zombie_processes(tbl, ps) ==
    [w \in Workspaces |-> IF w \in to_remove(tbl, ps) THEN NoProc ELSE tbl[w]]

\* The method has no caller in the routers; it is applied as a method of
\* the service object.
CleanupZombies ==
    /\ processes' = cleanup_zombie_processes(processes, procs)
    /\ resp' = [NoResp EXCEPT !.op = "reap", !.http = 200,
                              !.reaped = to_remove(processes, procs)]
    /\ UNCHANGED <<procs, store, osName, builder, threads>>

\* -------------------------------------------------------------- environment
\* a subprocess is killed from outside, or crashes
ExternalKill(pid) ==
    /\ pid \in DOMAIN procs
    /\ Alive(procs, pid)
    /\ procs' = Exit(procs, pid)
    /\ resp' = NoResp
    /\ UNCHANGED <<processes, store, osName, builder, threads>>

\* ----------------------------------------------------------- specifications
\* The program: the server from its construction and the requests of the
\* routers.  No start request stores a handle, so the table stays empty.
Next ==
    \/ \E w \in Workspaces : StartJupyter(w)
    \/ \E w \in Workspaces : StopJupyter(w)
    \/ \E w \in Workspaces : GetJupyterStatus(w)
    \/ \E w \in Workspaces : CreateWorkspace(w)
    \/ \E w \in Workspaces : DeleteWorkspace(w)

Spec == Init /\ [][Next]_vars

\* The handlers and methods run on every table (InitTable), with
\* subprocesses dying on their own.
NextTable ==
    \/ \E w \in Workspaces : StartJupyter(w)
    \/ \E w \in Workspaces : StopJupyter(w)
    \/ \E w \in Workspaces : GetJupyterStatus(w)
    \/ \E w \in Workspaces : CreateWorkspace(w)
    \/ \E w \in Workspaces : DeleteWorkspace(w)
    \/ CleanupZombies
    \/ \E pid \in Pids : ExternalKill(pid)

SpecTable == InitTable /\ [][NextTable]_vars

\* Port allocation on its own: find_available_port called, as it is
\* declared, with any set of ports whose bind fails, among the ports of the
\* range and its two neighbours.
NearPorts == (jupyter_port_start - 1)..jupyter_port_end

AllocatePort ==
    \E busy \in SUBSET NearPorts :
        /\ resp' = [NoResp EXCEPT !.op = "alloc", !.busy = busy,
                                  !.alloc = find_available_port(busy)]
        /\ UNCHANGED <<processes, procs, store, osName, builder, threads>>

NextAlloc == AllocatePort

SpecAlloc == Init /\ [][NextAlloc]_vars

\* ------------------------------------------------ the service under threads
\* JupyterService takes no lock.  The route handlers above never overlap; a
\* caller that runs the methods on several threads (the concurrency model of
\* the supervisor specification) can be preempted between any two
\* statements, and is while it sleeps in a wait.  A subprocess can exit on
\* its own between any two steps (ExternalKill).  A call is cut at every
\* read and write of the table and at every signal and wait:
\*   start_jupyter_lab
\*     StartTest      line 29      `workspace.id in self.processes`
\*     Run274..Run278 lines 274-278  is_process_running
\*     StartDelete    lines 35-36  del self.processes[workspace.id]
\*     StartReturn    lines 31-32  the print and the return of the fast path
\*     StartAllocate  lines 38-57  the probe of the stored port, and the call
\*                                 of find_available_port that raises
\*   is_process_running, called on its own
\*     AliveCall, then Run274..Run278
\*   stop_jupyter_lab
\*     StopCheck      lines 235-236  `workspace_id not in self.processes`
\*     StopRead       line 239       process = self.processes[workspace_id]
\*     StopGraceful   lines 245, 257 the graceful signal
\*     StopWait1      lines 246, 259 the bounded wait after it
\*     StopForce      line 261       SIGKILL (posix)
\*     StopTerminate  line 249       terminate() (nt)
\*     StopWaitTerm   line 251       the bounded wait after terminate()
\*     StopKill       line 253       kill() (nt)
\*     StopWait2      lines 254, 262 the wait without timeout
\*     StopDelete     lines 264-266  del self.processes[workspace_id]; return True
\*   cleanup_zombie_processes
\*     ReapBegin      lines 290-291  to_remove = []; the iterator of the dict
\*     ReapNext       line 291       the next item of the iterator
\*     Run274..Run278 line 292       is_process_running, line 293 the append
\*     ReapDelete     lines 295-296  del self.processes[workspace_id]
\* A KeyError of line 239 or 264 is caught at line 268 like any exception.  A
\* KeyError of line 36 or 277 is caught nowhere in the service: it leaves
\* start_jupyter_lab, is_process_running or cleanup_zombie_processes.  The
\* iterator of a dict raises RuntimeError at its next item when the size of
\* the dict has changed since the iterator was made.
\* A thread keeps the Workspace row it was called with, and the signals it
\* has sent without an exception.
\* kind of a finished call:
\*   start  "fast", "noport", "keyerror36", "keyerror277"
\*   stop   "stop_true", "stop_none" (no key at the check), "stop_keyerror",
\*          "stop_sendfail"
\*   alive  "alive_true", "alive_false", "keyerror277"
\*   reap   "reap_done", "reap_runtimeerror", "reap_keyerror", "keyerror277"
StartKinds == {"fast", "noport", "keyerror36", "keyerror277"}
StopPcs == {"s_checked", "s_read", "s_wait1", "s_force", "s_term", "s_wait_t",
            "s_kill", "s_wait2", "s_signalled"}
StopKinds == {"stop_true", "stop_none", "stop_keyerror", "stop_sendfail"}

\* the start and stop calls in flight for workspace w
InFlight(w) ==
    {u \in Threads : /\ threads[u].ws = w
                     /\ threads[u].op \in {"start", "stop"}
                     /\ threads[u].pc \notin {"idle", "done"}}

\* the keys of the dict
Keys(tbl) == {w \in Workspaces : tbl[w] # NoProc}

Finished(th, kind) == [th EXCEPT !.pc = "done", !.kind = kind]

\* where a call goes on when is_process_running has returned `running`
RunResult(th, running) ==
    CASE th.op = "start" ->
             IF ~running THEN [th EXCEPT !.pc = "checked"]
             ELSE IF th.row.port # Null /\ th.row.status = "running"
             THEN [th EXCEPT !.pc = "fast"]
             ELSE [th EXCEPT !.pc = "to_del"]
      [] th.op = "alive" ->
             Finished(th, IF running THEN "alive_true" ELSE "alive_false")
      [] OTHER ->                                     \* line 293
             [th EXCEPT !.pc = "z_next",
                        !.rem = IF running THEN @ ELSE Append(@, th.ws)]

StartTest(t, w) ==
    LET row == get_workspace_by_id(store, w) IN
    /\ threads[t].pc = "idle"
    /\ row # NoRow
    /\ threads' = [threads EXCEPT ![t] =
           [IdleThread EXCEPT !.pc = IF processes[w] # NoProc THEN "r274" ELSE "checked",
                              !.op = "start", !.ws = w, !.row = row,
                              !.sawKey = (processes[w] # NoProc),
                              !.during = InFlight(w)]]
    /\ UNCHANGED <<processes, procs, store, osName, builder, resp>>

AliveCall(t, w) ==
    /\ threads[t].pc = "idle"
    /\ threads' = [threads EXCEPT ![t] =
           [IdleThread EXCEPT !.pc = "r274", !.op = "alive", !.ws = w]]
    /\ UNCHANGED <<processes, procs, store, osName, builder, resp>>

\* lines 274-275
Run274(t) ==
    /\ threads[t].pc = "r274"
    /\ threads' = [threads EXCEPT ![t] =
           IF processes[threads[t].ws] = NoProc
           THEN RunResult(threads[t], FALSE)
           ELSE [@ EXCEPT !.pc = "r277"]]
    /\ UNCHANGED <<processes, procs, store, osName, builder, resp>>

\* line 277
Run277(t) ==
    /\ threads[t].pc = "r277"
    /\ threads' = [threads EXCEPT ![t] =
           IF processes[threads[t].ws] = NoProc
           THEN Finished(threads[t], "keyerror277")
           ELSE [@ EXCEPT !.pc = "r278", !.pid = processes[threads[t].ws]]]
    /\ UNCHANGED <<processes, procs, store, osName, builder, resp>>

\* line 278
Run278(t) ==
    /\ threads[t].pc = "r278"
    /\ threads' = [threads EXCEPT ![t] =
           RunResult(threads[t], PollIsNone(procs, threads[t].pid))]
    /\ UNCHANGED <<processes, procs, store, osName, builder, resp>>

StartDelete(t) ==
    LET w == threads[t].ws IN
    /\ threads[t].pc = "to_del"
    /\ processes' = IF processes[w] = NoProc THEN processes ELSE Del(processes, w)
    /\ threads' = [threads EXCEPT ![t] =
           IF processes[w] = NoProc
           THEN Finished(threads[t], "keyerror36")
           ELSE [@ EXCEPT !.pc = "checked"]]
    /\ UNCHANGED <<procs, store, osName, builder, resp>>

StartReturn(t) ==
    /\ threads[t].pc = "fast"
    /\ threads' = [threads EXCEPT ![t].pc = "done", ![t].kind = "fast",
                                  ![t].port = threads[t].row.port]
    /\ UNCHANGED <<processes, procs, store, osName, builder, resp>>

\* free: some port of the range would pass the bind probe
StartAllocate(t) ==
    /\ threads[t].pc = "checked"
    /\ \E ext \in SUBSET Ports :
         threads' = [threads EXCEPT ![t].pc = "done", ![t].kind = "noport",
                                    ![t].free = (ext # Ports)]
    /\ UNCHANGED <<processes, procs, store, osName, builder, resp>>

StopCheck(t, w) ==
    /\ threads[t].pc = "idle"
    /\ threads' = [threads EXCEPT ![t] =
           IF processes[w] = NoProc
           THEN [IdleThread EXCEPT !.pc = "done", !.op = "stop", !.ws = w,
                                   !.kind = "stop_none", !.during = InFlight(w)]
           ELSE [IdleThread EXCEPT !.pc = "s_checked", !.op = "stop", !.ws = w,
                                   !.sawKey = is_process_running(processes, procs, w),
                                   !.during = InFlight(w)]]
    /\ UNCHANGED <<processes, procs, store, osName, builder, resp>>

StopRead(t) ==
    /\ threads[t].pc = "s_checked"
    /\ threads' = [threads EXCEPT ![t] =
           IF processes[threads[t].ws] = NoProc
           THEN Finished(threads[t], "stop_keyerror")
           ELSE [@ EXCEPT !.pc = "s_read", !.pid = processes[threads[t].ws]]]
    /\ UNCHANGED <<processes, procs, store, osName, builder, resp>>

\* Sending a signal to a subprocess that has exited does nothing and raises
\* nothing; to a running one it is delivered or raises.
SendOutcomes(ps, pid) == IF PollIsNone(ps, pid) THEN {"ok", "raise"} ELSE {"ok"}

\* whether a running subprocess exits within a bounded wait; one that has
\* exited lets the wait return at once
ExitsInWait(ps, pid) == IF PollIsNone(ps, pid) THEN BOOLEAN ELSE {TRUE}

\* the subprocesses after a forceful signal was sent with outcome f: a send
\* that raised changes nothing; after one that went through the subprocess
\* has exited already or is still running
KillOutcomes(ps, pid, f) ==
    IF f = "ok" THEN {ps, Exit(ps, pid)} ELSE {ps}

StopGraceful(t) ==
    /\ threads[t].pc = "s_read"
    /\ \E g \in SendOutcomes(procs, threads[t].pid) :
         threads' = [threads EXCEPT ![t] =
             IF g = "ok"
             THEN [@ EXCEPT !.pc = "s_wait1",
                            !.signals = <<IF osName = "nt" THEN "CTRL_BREAK" ELSE "SIGTERM">>]
             ELSE IF osName = "nt" THEN [@ EXCEPT !.pc = "s_term"]   \* except OSError
             ELSE Finished(threads[t], "stop_sendfail")]
    /\ UNCHANGED <<processes, procs, store, osName, builder, resp>>

StopWait1(t) ==
    /\ threads[t].pc = "s_wait1"
    /\ \E ge \in ExitsInWait(procs, threads[t].pid) :
         /\ procs' = IF ge THEN Exit(procs, threads[t].pid) ELSE procs
         /\ threads' = [threads EXCEPT ![t].pc =
                IF ge THEN "s_signalled"
                ELSE IF osName = "nt" THEN "s_term" ELSE "s_force"]
    /\ UNCHANGED <<processes, store, osName, builder, resp>>

\* line 261.  The kill takes effect some time after the send has returned:
\* the subprocess may be gone when send_signal returns or still be running
\* (poll() is None) until the wait of line 262.
StopForce(t) ==
    /\ threads[t].pc = "s_force"
    /\ \E f \in SendOutcomes(procs, threads[t].pid) :
         /\ procs' \in KillOutcomes(procs, threads[t].pid, f)
         /\ threads' = [threads EXCEPT ![t] =
                IF f = "ok"
                THEN [@ EXCEPT !.pc = "s_wait2", !.signals = Append(@, "SIGKILL")]
                ELSE Finished(threads[t], "stop_sendfail")]
    /\ UNCHANGED <<processes, store, osName, builder, resp>>

StopTerminate(t) ==
    /\ threads[t].pc = "s_term"
    /\ \E f \in SendOutcomes(procs, threads[t].pid) :
         threads' = [threads EXCEPT ![t] =
             IF f = "ok"
             THEN [@ EXCEPT !.pc = "s_wait_t", !.signals = Append(@, "terminate")]
             ELSE Finished(threads[t], "stop_sendfail")]
    /\ UNCHANGED <<processes, procs, store, osName, builder, resp>>

StopWaitTerm(t) ==
    /\ threads[t].pc = "s_wait_t"
    /\ \E fe \in ExitsInWait(procs, threads[t].pid) :
         /\ procs' = IF fe THEN Exit(procs, threads[t].pid) ELSE procs
         /\ threads' = [threads EXCEPT ![t].pc = IF fe THEN "s_signalled" ELSE "s_kill"]
    /\ UNCHANGED <<processes, store, osName, builder, resp>>

\* line 253; the kill takes effect as at line 261
StopKill(t) ==
    /\ threads[t].pc = "s_kill"
    /\ \E f \in SendOutcomes(procs, threads[t].pid) :
         /\ procs' \in KillOutcomes(procs, threads[t].pid, f)
         /\ threads' = [threads EXCEPT ![t] =
                IF f = "ok"
                THEN [@ EXCEPT !.pc = "s_wait2", !.signals = Append(@, "kill")]
                ELSE Finished(threads[t], "stop_sendfail")]
    /\ UNCHANGED <<processes, store, osName, builder, resp>>

\* lines 262 and 254: wait() without timeout returns when the killed
\* subprocess has exited
StopWait2(t) ==
    /\ threads[t].pc = "s_wait2"
    /\ procs' = Exit(procs, threads[t].pid)
    /\ threads' = [threads EXCEPT ![t].pc = "s_signalled"]
    /\ UNCHANGED <<processes, store, osName, builder, resp>>

StopDelete(t) ==
    LET w == threads[t].ws IN
    /\ threads[t].pc = "s_signalled"
    /\ processes' = IF processes[w] = NoProc THEN processes ELSE StopDel(processes, w)
    /\ threads' = [threads EXCEPT ![t] =
           IF processes[w] = NoProc
           THEN Finished(threads[t], "stop_keyerror")
           ELSE Finished(threads[t], "stop_true")]
    /\ UNCHANGED <<procs, store, osName, builder, resp>>

\* size: the number of keys when the iterator was made; seen: the keys it
\* has given; rem: to_remove
ReapBegin(t) ==
    /\ threads[t].pc = "idle"
    /\ threads' = [threads EXCEPT ![t] =
           [IdleThread EXCEPT !.pc = "z_next", !.op = "reap",
                              !.size = Cardinality(Keys(processes))]]
    /\ UNCHANGED <<processes, procs, store, osName, builder, resp>>

\* The keys come in the order they were inserted, which is any order here.
ReapNext(t) ==
    LET th == threads[t] IN
    /\ th.pc = "z_next"
    /\ IF Cardinality(Keys(processes)) # th.size
       THEN threads' = [threads EXCEPT ![t] = Finished(th, "reap_runtimeerror")]
       ELSE IF Keys(processes) \subseteq th.seen
       THEN threads' = [threads EXCEPT ![t].pc = "z_del"]
       ELSE \E k \in Keys(processes) \ th.seen :
              threads' = [threads EXCEPT ![t].pc = "r274", ![t].ws = k,
                                         ![t].seen = th.seen \cup {k}]
    /\ UNCHANGED <<processes, procs, store, osName, builder, resp>>

ReapDelete(t) ==
    LET th == threads[t] IN
    /\ th.pc = "z_del"
    /\ IF th.rem = <<>>
       THEN /\ threads' = [threads EXCEPT ![t] = Finished(th, "reap_done")]
            /\ processes' = processes
       ELSE IF processes[Head(th.rem)] = NoProc
       THEN /\ threads' = [threads EXCEPT ![t] = Finished(th, "reap_keyerror")]
            /\ processes' = processes
       ELSE /\ threads' = [threads EXCEPT ![t].rem = Tail(th.rem)]
            /\ processes' = Del(processes, Head(th.rem))
    /\ UNCHANGED <<procs, store, osName, builder, resp>>

NextThreads ==
    \/ \E t \in Threads, w \in Workspaces : StartTest(t, w)
    \/ \E t \in Threads, w \in Workspaces : AliveCall(t, w)
    \/ \E t \in Threads : Run274(t)
    \/ \E t \in Threads : Run277(t)
    \/ \E t \in Threads : Run278(t)
    \/ \E t \in Threads : StartDelete(t)
    \/ \E t \in Threads : StartReturn(t)
    \/ \E t \in Threads : StartAllocate(t)
    \/ \E t \in Threads, w \in Workspaces : StopCheck(t, w)
    \/ \E t \in Threads : StopRead(t)
    \/ \E t \in Threads : StopGraceful(t)
    \/ \E t \in Threads : StopWait1(t)
    \/ \E t \in Threads : StopForce(t)
    \/ \E t \in Threads : StopTerminate(t)
    \/ \E t \in Threads : StopWaitTerm(t)
    \/ \E t \in Threads : StopKill(t)
    \/ \E t \in Threads : StopWait2(t)
    \/ \E t \in Threads : StopDelete(t)
    \/ \E t \in Threads : ReapBegin(t)
    \/ \E t \in Threads : ReapNext(t)
    \/ \E t \in Threads : ReapDelete(t)
    \/ \E pid \in Pids : ExternalKill(pid)

SpecThreads == InitTable /\ [][NextThreads]_vars

\* ------------------------------------------------------------- flow graph
\* backend/app/llmops/graph_builder.py: GraphBuilder orders the nodes of a
\* flow before chaining them.  A node id is a number of NodeIds; Null is the
\* None (or empty string) that edge.get("source") gives for an edge without
\* that end.  An edge is a record of its two ends.
EdgeEnds == NodeIds \cup {Null}
Edge == [source : EdgeEnds, target : EdgeEnds]
EdgeLists == UNION {[1..n -> Edge] : n \in 0..MaxEdges}

\* the orders in which a set of ids can be iterated (set(...) of line 217
\* has no defined order, and the in_degree dict is filled in that order)
Orders(S) ==
    {f \in [1..Cardinality(S) -> S] : \A i, j \in DOMAIN f : i # j => f[i] # f[j]}

\* lines 227-233: an edge is skipped when an end is missing or is no built node
EdgeSkipped(built_nodes, edge) ==
    \/ edge.source = Null \/ edge.target = Null
    \/ edge.source \notin built_nodes \/ edge.target \notin built_nodes

\* lines 222-248, the loop over the edges: g is what the object holds; an
\* edge that is not skipped is appended to the list of its source and to
\* self.edges, and counted at its target
RECURSIVE AnalyzeLoop(_, _, _)
AnalyzeLoop(built_nodes, edges, g) ==
    IF edges = <<>> THEN g
    ELSE LET edge == Head(edges)
         IN AnalyzeLoop(built_nodes, Tail(edges),
              IF EdgeSkipped(built_nodes, edge) THEN g
              ELSE [adjacency_list |->
                        [g.adjacency_list EXCEPT ![edge.source] = Append(@, edge.target)],
                    in_degree |-> [g.in_degree EXCEPT ![edge.target] = @ + 1],
                    edges |-> Append(g.edges, edge)])

\* _analyze_edges (lines 212-255): the in-degree of every built node is set
\* to 0 (lines 217-219), then the loop.  adjacency_list and edges are not
\* reset: the loop appends to what the object holds from earlier builds.
\* adjacency_list is a defaultdict(list): a node without an outgoing edge
\* reads as the empty list.
analyze_edges(built_nodes, edges, adjacency_list, self_edges) ==
    AnalyzeLoop(built_nodes, edges,
                [adjacency_list |-> adjacency_list,
                 in_degree |-> [n \in built_nodes |-> 0],
                 edges |-> self_edges])

\* lines 283-286: every neighbour loses one in-degree and is queued at zero
RECURSIVE Relax(_, _, _)
Relax(neighbors, in_degree_copy, queue) ==
    IF neighbors = <<>> THEN [in_degree_copy |-> in_degree_copy, queue |-> queue]
    ELSE LET neighbor == Head(neighbors)
             d == [in_degree_copy EXCEPT ![neighbor] = @ - 1]
         IN Relax(Tail(neighbors), d,
                  IF d[neighbor] = 0 THEN Append(queue, neighbor) ELSE queue)

\* lines 278-286: while queue: popleft, append to the result, relax
RECURSIVE KahnLoop(_, _, _, _)
KahnLoop(queue, result, in_degree_copy, adjacency_list) ==
    IF queue = <<>> THEN result
    ELSE \* popleft
         LET current == Head(queue)
             r == Relax(adjacency_list[current], in_degree_copy, Tail(queue))
         IN KahnLoop(r.queue, Append(result, current), r.in_degree_copy, adjacency_list)

\* _topological_sort (lines 257-294).  idOrder is the order of the keys of
\* in_degree; raised is the RuntimeError of line 291.
topological_sort(built_nodes, idOrder, g) ==
    LET queue == SelectSeq(idOrder, LAMBDA n : g.in_degree[n] = 0)
        result == KahnLoop(queue, <<>>, g.in_degree, g.adjacency_list)
    IN IF Len(result) # Cardinality(built_nodes)
       THEN [raised |-> TRUE, result |-> <<>>]
       ELSE [raised |-> FALSE, result |-> result]

\* GraphBuilder(flow_data) (lines 68-88): the object keeps the flow and
\* starts with built_nodes, edges, adjacency_list and in_degree empty.  Of
\* the flow's nodes, `nodes` are the ids _instantiate_nodes stores in
\* built_nodes (every node that has an id and a type); idOrder is the
\* order in which set(self.built_nodes.keys()) is iterated at line 217.
NewBuilder(nodes, idOrder, edges) ==
    [NoBuilder EXCEPT !.made = TRUE, !.nodes = nodes, !.idOrder = idOrder,
                      !.flow_edges = edges]

\* build() (lines 90-122) as far as the order of execution: the nodes are
\* instantiated (the same ids at every build), the edges analysed and the
\* nodes sorted.  in_order is the order of the keys of in_degree: a key
\* keeps the place of its first insertion.  An exception of the sort leaves
\* build() as a RuntimeError (lines 120-122); what _analyze_edges did to the
\* object stays.
Build ==
    /\ builder.made
    /\ builder.builds < MaxBuilds
    /\ \E g \in {analyze_edges(builder.nodes, builder.flow_edges,
                               builder.adjacency_list, builder.edges)} :
         \E r \in {topological_sort(builder.nodes, builder.idOrder, g)} :
           /\ builder' = [builder EXCEPT !.built_nodes = builder.nodes,
                                         !.in_order = builder.idOrder,
                                         !.in_degree = g.in_degree,
                                         !.adjacency_list = g.adjacency_list,
                                         !.edges = g.edges,
                                         !.builds = @ + 1]
           /\ resp' = [NoResp EXCEPT !.op = "topo", !.built_nodes = builder.nodes,
                                     !.edges = builder.flow_edges,
                                     !.idOrder = builder.idOrder,
                                     !.result = r.result, !.cycleError = r.raised,
                                     !.builds = builder.builds + 1]
    /\ UNCHANGED <<processes, procs, store, osName, threads>>

\* get_execution_plan() (lines 374-398): the nodes are sorted as the object
\* stands; an exception of the sort is caught and reported under "error".
GetExecutionPlan ==
    /\ builder.made
    /\ \E r \in {topological_sort(builder.built_nodes, builder.in_order,
                                  [in_degree |-> builder.in_degree,
                                   adjacency_list |-> builder.adjacency_list])} :
         resp' = [NoResp EXCEPT !.op = "plan", !.built_nodes = builder.built_nodes,
                                !.edges = builder.flow_edges,
                                !.idOrder = builder.in_order,
                                !.result = r.result, !.cycleError = r.raised,
                                !.builds = builder.builds]
    /\ UNCHANGED <<processes, procs, store, osName, threads, builder>>

NextFlow == Build \/ GetExecutionPlan

\* A GraphBuilder made for any flow, apart from the supervisor.
InitFlow ==
    /\ processes = [w \in Workspaces |-> NoProc]
    /\ procs = <<>>
    /\ store = [w \in Workspaces |-> NoRow]
    /\ osName = "posix"
    /\ resp = NoResp
    /\ threads = [t \in Threads |-> IdleThread]
    /\ \E nodes \in SUBSET NodeIds :
         \E idOrder \in Orders(nodes), edges \in EdgeLists :
           builder = NewBuilder(nodes, idOrder, edges)

SpecFlow == InitFlow /\ [][NextFlow]_vars

TypeOK ==
    /\ processes \in [Workspaces -> Pids \cup {NoProc}]
    /\ Len(procs) <= NumWorkspaces
    /\ \A w \in Workspaces : processes[w] # NoProc => processes[w] \in DOMAIN procs

\* ===================================================================== claims
\* a request in which the service method was called has just ended
StartStep(w) == resp'.op = "start" /\ resp'.ws = w /\ resp'.kind \in StartKinds
StopStep(w) == resp'.op = "stop" /\ resp'.ws = w /\ resp'.kind = "stop"
StartEnded == resp.op = "start" /\ resp.kind \in StartKinds
StopEnded == resp.op = "stop" /\ resp.kind = "stop"

\* the start was made with nothing in the way of a launch: a port of the
\* range free, Popen returning a handle, the subprocess alive at the settle
\* check
Favourable(in) == in.ext # Ports /\ in.spawn /\ in.settle = "alive"

DeadEntry(w) == processes[w] # NoProc /\ ~Alive(procs, processes[w])

\* C1: two start requests for the same workspace, one directly after the
\* other, the first one having to launch and nothing in the way of a launch:
\* both succeed with the same port, the first spawns a subprocess and the
\* second spawns nothing.
C1_SecondStartSamePort ==
    [][\A w \in Workspaces :
         (/\ StartEnded /\ resp.ws = w /\ resp.kind # "fast"
          /\ Favourable(resp.env)
          /\ StartStep(w))
         => (/\ resp.http = 200 /\ resp'.http = 200
             /\ resp'.port = resp.port
             /\ resp.pid # NoProc
             /\ resp'.pid = NoProc)]_vars

\* C5, first half: when the subprocess held by a workspace's entry is killed
\* from outside, is_alive goes from True to False.
C5_KillSeen(w) ==
    (/\ processes[w] # NoProc
     /\ processes' = processes
     /\ Alive(procs, processes[w])
     /\ ~Alive(procs', processes[w]))
    => (/\ is_process_running(processes, procs, w)
        /\ ~is_process_running(processes', procs', w))

C8_NoPortTableUnchanged ==
    [][\A w \in Workspaces :
         (StartStep(w) /\ resp'.allBusy)
         => (/\ resp'.http = 500 /\ resp'.kind = "noport" /\ resp'.pid = NoProc
             /\ procs' = procs
             /\ processes' = processes)]_vars

\* a start for a workspace whose row carries the port of an earlier run has
\* failed for want of a port, every port of the range being busy
C8_Witness ==
    /\ StartEnded /\ resp.allBusy /\ resp.kind = "noport" /\ resp.http = 500
    /\ store[resp.ws].status = "running"
    /\ processes[resp.ws] = NoProc /\ procs = <<>>

\* C9: a start request for a workspace without entry, with a free port and a
\* subprocess alive after the settle delay, succeeds with a port of the
\* range, leaves an entry, and the store records that port.
C9_StartSucceeds ==
    [][\A w \in Workspaces :
         (/\ processes[w] = NoProc
          /\ StartStep(w)
          /\ Favourable(resp'.env))
         => (/\ resp'.http = 200
             /\ resp'.port \in Ports
             /\ processes'[w] # NoProc
             /\ store'[w].port = resp'.port)]_vars

\* C10: after an immediate exit the message holds the reason of every
\* indicator found in the output, in the order missing module, launcher not
\* installed, permission, port in use; it holds the unknown-failure text
\* exactly when no indicator is found.
ReasonOrder == <<"module_missing", "jupyter_not_installed", "permission", "port_in_use">>

Found(i, stderr, stdout) ==
    CASE i = 1 -> "ModuleNotFoundError" \in stderr
      [] i = 2 -> "jupyter" \notin (stderr \cup stdout)
      [] i = 3 -> "Permission denied" \in stderr
      [] OTHER -> {"Port", "already in use"} \subseteq stderr

PositionOf(seq, x) == CHOOSE k \in DOMAIN seq : seq[k] = x

C10_ReasonsOfAllIndicators ==
    (/\ StartEnded /\ resp.kind # "fast"
     /\ resp.env.ext # Ports /\ resp.env.spawn /\ resp.env.settle = "exited")
    => LET in_msg == {resp.reasons[k] : k \in DOMAIN resp.reasons}
           found == {i \in DOMAIN ReasonOrder :
                        Found(i, resp.env.stderr, resp.env.stdout)}
       IN /\ \A i \in found : ReasonOrder[i] \in in_msg
          /\ \A i, j \in found :
                 i < j => PositionOf(resp.reasons, ReasonOrder[i])
                              < PositionOf(resp.reasons, ReasonOrder[j])
          /\ ("unknown" \in in_msg) <=> (found = {})

\* C13: a start whose subprocess is alive at the settle check and whose port
\* accepts no connection in any probe returns a port of the range as a
\* success and keeps the entry, also when the subprocess exited after the
\* settle check.
C13_TolerantSuccess ==
    (/\ StartEnded /\ resp.kind # "fast"
     /\ Favourable(resp.env)
     /\ resp.env.poll \in {"closed", "closed_exited"})
    => (/\ resp.http = 200
        /\ resp.port \in Ports
        /\ processes[resp.ws] # NoProc)

\* C14: the status request's is_alive answer is True exactly when the table
\* holds an entry for the workspace whose subprocess has not exited; asking
\* changes neither table nor subprocesses; and the entry of an exited
\* subprocess changes only in a start or stop of its workspace or in a reap.
C14_IsAliveExactAndPure ==
    [][\A w \in Workspaces :
         /\ (resp'.op = "status" /\ resp'.ws = w /\ resp'.kind = "status")
            => (/\ resp'.running
                    = (\E pid \in DOMAIN procs :
                           processes[w] = pid /\ procs[pid].st # "exited")
                /\ processes' = processes
                /\ procs' = procs)
         /\ (resp'.op = "status" /\ resp'.ws = w)
            => (processes' = processes /\ procs' = procs)
         /\ (DeadEntry(w) /\ processes'[w] # processes[w])
            => \/ resp'.op \in {"start", "stop"} /\ resp'.ws = w
               \/ resp'.op = "reap"]_vars

\* is_alive has answered False for a workspace whose exited subprocess is
\* still in the table
C14_Witness ==
    /\ resp.op = "status" /\ resp.kind = "status" /\ resp.running = FALSE
    /\ DeadEntry(resp.ws)

\* C15: a reap removes the entry of every workspace whose subprocess has
\* exited, removes no other entry, and leaves the entries of live
\* subprocesses and the subprocesses themselves as they were.
C15_ReapExactlyDead ==
    [][resp'.op = "reap"
       => (/\ \A w \in Workspaces :
                 processes'[w] = IF DeadEntry(w) THEN NoProc ELSE processes[w]
           /\ procs' = procs)]_vars

\* a reap has removed an exited subprocess's entry while another workspace's
\* subprocess was alive and has kept its entry
C15_Witness ==
    /\ resp.op = "reap" /\ resp.reaped # {}
    /\ \A w \in resp.reaped : processes[w] = NoProc
    /\ \E v \in Workspaces : is_process_running(processes, procs, v)

\* C16: once a stop request for a workspace has completed, the port of the
\* workspace's row in the Workspace Store is null, whether or not the table
\* held an entry for it.
C16_StopClearsStoredPort ==
    StopEnded => store[resp.ws].port = Null

\* C19: two start calls for one workspace that both went past the fast-path
\* check while the other was under way, with a port free for each: each
\* spawns a subprocess of its own, and the table holds the handle of one of
\* them.
C19_BothPassed(t, u) ==
    /\ t # u
    /\ threads[t].ws = threads[u].ws
    /\ threads[t].pc = "done" /\ threads[u].pc = "done"
    /\ threads[t].kind = "noport" /\ threads[u].kind = "noport"
    /\ t \in threads[u].during
    /\ threads[t].free /\ threads[u].free

C19_TwoSpawnedLastStoredKept ==
    \A t, u \in Threads :
        C19_BothPassed(t, u)
        => (/\ threads[t].pid # NoProc /\ threads[u].pid # NoProc
            /\ threads[t].pid # threads[u].pid
            /\ processes[threads[u].ws] \in {threads[t].pid, threads[u].pid})

\* C24: a stop for a workspace whose entry holds a subprocess that has
\* already exited returns True, whatever would become of a signal, and
\* removes the entry; the other entries stay.
C24_StopOfExitedReturnsTrue ==
    [][\A w \in Workspaces :
         (DeadEntry(w) /\ StopStep(w))
         => (/\ resp'.ret = TRUE /\ resp'.exc = FALSE
             /\ processes'[w] = NoProc
             /\ \A v \in Workspaces \ {w} : processes'[v] = processes[v])]_vars

\* a stop has found the entry of an exited subprocess and removed it
C24_Witness ==
    /\ StopEnded /\ resp.found = "dead" /\ resp.ret = TRUE
    /\ processes[resp.ws] = NoProc

\* C25: a start, stop or status request for one workspace leaves the table
\* entry of every other workspace as it was, and a reap changes only
\* entries of exited subprocesses: the entry of a live subprocess changes
\* only in a start or stop of its own workspace.
C25_OtherEntriesUntouched ==
    [][\A v \in Workspaces :
         processes'[v] # processes[v]
         => \/ resp'.op \in {"start", "stop"} /\ resp'.ws = v
            \/ resp'.op = "reap" /\ DeadEntry(v)]_vars

\* a stop has removed its workspace's entry while the live subprocess of
\* another workspace has kept its own
C25_Witness ==
    /\ StopEnded /\ resp.found = "alive" /\ resp.ret = TRUE
    /\ \E v \in Workspaces \ {resp.ws} : is_process_running(processes, procs, v)

\* C26: port allocation returns the lowest port of the range [start, end)
\* whose bind succeeds, and no port when none does; what it returns is never
\* below start, never the end bound and never above it.
C26_LowestFreePortOfRange ==
    resp.op = "alloc"
    => LET free == {p \in jupyter_port_start..(jupyter_port_end - 1) :
                        p \notin resp.busy}
       IN IF free = {}
          THEN resp.alloc = Null
          ELSE /\ resp.alloc \in free
               /\ \A p \in free : resp.alloc <= p
               /\ resp.alloc >= jupyter_port_start
               /\ resp.alloc < jupyter_port_end

\* the lowest port was busy and the next one was returned, with the ports
\* next to the range free
C26_Witness ==
    /\ resp.op = "alloc"
    /\ resp.busy = {jupyter_port_start}
    /\ resp.alloc = jupyter_port_start + 1

\* every port of the range busy, the end bound free: nothing is returned
C26_EndBoundNotReturned ==
    /\ resp.op = "alloc"
    /\ resp.busy = jupyter_port_start..(jupyter_port_end - 1)
    /\ resp.alloc = Null

\* the edges among built nodes of the flow just ordered, as pairs
C30_Edges ==
    {<<resp.edges[i].source, resp.edges[i].target>> : i \in
        {j \in DOMAIN resp.edges : /\ resp.edges[j].source \in resp.built_nodes
                                   /\ resp.edges[j].target \in resp.built_nodes}}

\* the nodes reached from the set S along one or more of the edges E
RECURSIVE C30_Reach(_, _)
C30_Reach(S, E) ==
    LET next == S \cup {e[2] : e \in {x \in E : x[1] \in S}}
    IN IF next = S THEN S ELSE C30_Reach(next, E)

C30_HasCycle ==
    \E n \in resp.built_nodes :
        n \in C30_Reach({e[2] : e \in {x \in C30_Edges : x[1] = n}}, C30_Edges)

C30_Pos(n) == CHOOSE i \in DOMAIN resp.result : resp.result[i] = n

\* C30: the topological sort, in build() and in get_execution_plan(), raises
\* the cycle error exactly when the edges among built nodes contain a cycle;
\* otherwise it returns every built node exactly once, each edge's source
\* before its target.
C30_TopologicalOrderOrCycleError ==
    resp.op \in {"topo", "plan"} =>
        /\ resp.cycleError <=> C30_HasCycle
        /\ ~resp.cycleError =>
              /\ Len(resp.result) = Cardinality(resp.built_nodes)
              /\ {resp.result[i] : i \in DOMAIN resp.result} = resp.built_nodes
              /\ \A e \in C30_Edges : C30_Pos(e[1]) < C30_Pos(e[2])

====
